---- MODULE Spec2Model ----
(***************************************************************************)
(* The sequential file pipeline `fileOps` of the tutorial: read            *)
(* files/starter.txt, unlink it, write the text to files/reply.txt, append *)
(* a literal, rename to files/newreply.txt and read it back; a try/catch   *)
(* around the whole chain logs any error.                                  *)
(* After it, the tutorial's Express server (a RegExp route, two string     *)
(* routes, a 404 catch-all) and its event-emitter script.                  *)
(*                                                                         *)
(* A file is a sequence of bytes; a JavaScript string is a sequence of     *)
(* code points.  readFile(.., 'utf8') decodes, writeFile/appendFile of a   *)
(* string encode.                                                          *)
(***************************************************************************)
EXTENDS Integers, Sequences, FiniteSets, TLC

\* Longest initial content of files/starter.txt, in bytes.
MaxLen == 2
\* Number of times the script is started, one after the other.
MaxRuns == 2

\* The bytes the initial content of starter.txt is drawn from: "h", and the
\* two bytes of U+00E9, which are ill-formed on their own.
ByteAlphabet == {104, 195, 169}

Procs == 1..MaxRuns

Files == {"starter.txt", "reply.txt", "newreply.txt"}

(***************************************************************************)
(* UTF-8                                                                   *)
(***************************************************************************)
\* U+FFFD, what the decoder puts for every ill-formed subsequence.
Replacement == 65533

\* Number of continuation bytes the lead byte b1 asks for; -1: never a lead.
utf8Need(b1) ==
  IF b1 < 128 THEN 0
  ELSE IF b1 >= 194 /\ b1 <= 223 THEN 1
  ELSE IF b1 >= 224 /\ b1 <= 239 THEN 2
  ELSE IF b1 >= 240 /\ b1 <= 244 THEN 3
  ELSE -1

\* Is b[j+1] acceptable as the j-th continuation byte after lead b[1]?
utf8ContOk(b, j) ==
  /\ Len(b) >= j + 1
  /\ LET lo == IF j = 1 /\ b[1] = 224 THEN 160
               ELSE IF j = 1 /\ b[1] = 240 THEN 144 ELSE 128
         hi == IF j = 1 /\ b[1] = 237 THEN 159
               ELSE IF j = 1 /\ b[1] = 244 THEN 143 ELSE 191
     IN  b[j + 1] >= lo /\ b[j + 1] <= hi

\* How many of the continuation bytes asked for are there.
utf8Got(b) ==
  Cardinality({i \in 1..utf8Need(b[1]) : \A j \in 1..i : utf8ContOk(b, j)})

utf8CodePoint(b) ==
  LET n == utf8Need(b[1])
  IN  IF n = 0 THEN b[1]
      ELSE IF n = 1 THEN (b[1] - 192) * 64 + (b[2] - 128)
      ELSE IF n = 2 THEN (b[1] - 224) * 4096 + (b[2] - 128) * 64 + (b[3] - 128)
      ELSE (b[1] - 240) * 262144 + (b[2] - 128) * 4096
             + (b[3] - 128) * 64 + (b[4] - 128)

\* bytes -> string, as readFile(path, 'utf8') does: never fails, every
\* maximal ill-formed subsequence becomes one U+FFFD; a BOM is kept.
\* (The rest of the bytes is bound to t before the recursive call, so that
\* it is computed once.)
RECURSIVE utf8Decode(_)
utf8Decode(b) ==
  IF b = <<>> THEN <<>>
  ELSE LET n == utf8Need(b[1])
           g == IF n = -1 THEN 0 ELSE utf8Got(b)
           whole == n >= 0 /\ g = n
           c == IF whole THEN utf8CodePoint(b) ELSE Replacement
       IN  <<c>> \o
           (CHOOSE r \in {utf8Decode(t) : t \in {SubSeq(b, g + 2, Len(b))}} : TRUE)

utf8EncodeOne(c) ==
  IF c < 128 THEN <<c>>
  ELSE IF c < 2048 THEN <<192 + (c \div 64), 128 + (c % 64)>>
  ELSE IF c < 65536
       THEN <<224 + (c \div 4096), 128 + ((c \div 64) % 64), 128 + (c % 64)>>
  ELSE <<240 + (c \div 262144), 128 + ((c \div 4096) % 64),
         128 + ((c \div 64) % 64), 128 + (c % 64)>>

\* string -> bytes, as writeFile/appendFile do with string data.
RECURSIVE utf8Encode(_)
utf8Encode(s) ==
  IF s = <<>> THEN <<>>
  ELSE utf8EncodeOne(Head(s)) \o
       (CHOOSE r \in {utf8Encode(t) : t \in {Tail(s)}} : TRUE)

\* '\n\nappending to this file'
Suffix ==
  <<10, 10, 97, 112, 112, 101, 110, 100, 105, 110, 103, 32,
    116, 111, 32, 116, 104, 105, 115, 32, 102, 105, 108, 101>>

(***************************************************************************)
(* JavaScript values that reach console.log or settle a promise            *)
(***************************************************************************)
Undefined == [type |-> "undefined", val |-> <<>>, code |-> "", syscall |-> "", path |-> ""]
Str(s) == [type |-> "string", val |-> s, code |-> "", syscall |-> "", path |-> ""]
\* The Error a rejected fs.promises call carries.
Err(c, sc, p) == [type |-> "error", val |-> <<>>, code |-> c, syscall |-> sc, path |-> p]

(***************************************************************************)
(* The file system: each of the three paths is absent or holds bytes.      *)
(***************************************************************************)
Absent == [exists |-> FALSE, bytes |-> <<>>]
File(b) == [exists |-> TRUE, bytes |-> b]

\* Outcome of one fs.promises call: resolved or rejected, the file system it
\* leaves, the value it resolves to or the error it rejects with.
Ok(f, v) == [ok |-> TRUE, fs |-> f, val |-> v]
Fail(f, e) == [ok |-> FALSE, fs |-> f, val |-> e]

\* The proper prefixes of b: what a write that fails part-way has put down.
ProperPrefixes(b) == {SubSeq(b, 1, n) : n \in 0..(Len(b) - 1)}

readFile(f, path) ==
  IF ~f[path].exists
  THEN {Fail(f, Err("ENOENT", "open", path))}
  ELSE {Ok(f, Str(utf8Decode(f[path].bytes))),
        Fail(f, Err("EACCES", "open", path))}

\* fs.rm(path, {force: true}): resolves when the path is already gone.
unlinkForce(f, path) ==
  IF ~f[path].exists
  THEN {Ok(f, Undefined)}
  ELSE {Ok([f EXCEPT ![path] = Absent], Undefined),
        Fail(f, Err("EACCES", "unlink", path))}

unlink(f, path) ==
  IF ~f[path].exists
  THEN {Fail(f, Err("ENOENT", "unlink", path))}
  ELSE {Ok([f EXCEPT ![path] = Absent], Undefined),
        Fail(f, Err("EACCES", "unlink", path))}

writeFileNoTruncate(f, path, s) ==
  LET old == IF f[path].exists THEN f[path].bytes ELSE <<>>
      new == utf8Encode(s)
  IN  {Ok([f EXCEPT ![path] = File(new \o SubSeq(old, Len(new) + 1, Len(old)))], Undefined),
       Fail(f, Err("EACCES", "open", path))}

writeFileAppends(f, path, s) ==
  LET old == IF f[path].exists THEN f[path].bytes ELSE <<>>
  IN  {Ok([f EXCEPT ![path] = File(old \o utf8Encode(s))], Undefined),
       Fail(f, Err("EACCES", "open", path))}

\* Flag 'w': create or truncate, then write.  It fails at the open, with
\* nothing changed, or part-way, with the file truncated and a prefix written.
writeFile(f, path, s) ==
  UNION {
    {Ok([f EXCEPT ![path] = File(e)], Undefined),
     Fail(f, Err("EACCES", "open", path))}
    \cup {Fail([f EXCEPT ![path] = File(b)], Err("ENOSPC", "write", path)) :
            b \in ProperPrefixes(e)}
    : e \in {utf8Encode(s)}}

\* Flag 'a': create if absent, write at the end.
appendFile(f, path, s) ==
  LET old == IF f[path].exists THEN f[path].bytes ELSE <<>>
  IN  UNION {
        {Ok([f EXCEPT ![path] = File(old \o e)], Undefined),
         Fail(f, Err("EACCES", "open", path))}
        \cup {Fail([f EXCEPT ![path] = File(old \o b)], Err("ENOSPC", "write", path)) :
                b \in ProperPrefixes(e)}
        : e \in {utf8Encode(s)}}

\* rename(2): atomic, replaces an existing destination.
rename(f, old, new) ==
  IF ~f[old].exists
  THEN {Fail(f, Err("ENOENT", "rename", old))}
  ELSE {Ok([f EXCEPT ![new] = f[old], ![old] = Absent], Undefined),
        Fail(f, Err("EACCES", "rename", old))}

(***************************************************************************)
(* fileOps                                                                 *)
(***************************************************************************)
StarterPath == "starter.txt"
UnlinkPathTypo == "reply.txt"
\* The path unlink is given.
UnlinkPath == "starter.txt"
ReplyPath == "reply.txt"
AppendPathTypo == "newreply.txt"
\* The path appendFile is given.
AppendPath == "reply.txt"
NewReplyPath == "newreply.txt"

CallWriteBeforeUnlink(k, f, d) ==
  IF k = 1 THEN readFile(f, StarterPath)
  ELSE IF k = 2 THEN writeFile(f, ReplyPath, d.val)
  ELSE IF k = 3 THEN unlink(f, UnlinkPath)
  ELSE IF k = 4 THEN appendFile(f, AppendPath, Suffix)
  ELSE IF k = 5 THEN rename(f, ReplyPath, NewReplyPath)
  ELSE readFile(f, NewReplyPath)

\* The six awaited calls of the try block, in source order: the outcomes of
\* call k on file system f, d being the value of `data`.
Call(k, f, d) ==
  IF k = 1 THEN readFile(f, StarterPath)
  ELSE IF k = 2 THEN unlink(f, UnlinkPath)
  ELSE IF k = 3 THEN writeFile(f, ReplyPath, d.val)
  ELSE IF k = 4 THEN appendFile(f, AppendPath, Suffix)
  ELSE IF k = 5 THEN rename(f, ReplyPath, NewReplyPath)
  ELSE readFile(f, NewReplyPath)

ContinueNeverResumes(k) ==
  IF k = 3 THEN {} ELSE IF k < 6 THEN {k + 1} ELSE {}
ContinueNoAwaitWrite(k) ==
  IF k = 2 THEN {3, 4} ELSE IF k = 3 THEN {} ELSE IF k < 6 THEN {k + 1} ELSE {}
ContinueNoAwaitAppend(k) ==
  IF k = 3 THEN {4, 5} ELSE IF k = 4 THEN {} ELSE IF k < 6 THEN {k + 1} ELSE {}
ContinueNoAwaitUnlink(k) ==
  IF k = 1 THEN {2, 3} ELSE IF k = 2 THEN {} ELSE IF k < 6 THEN {k + 1} ELSE {}
\* `await`: the calls issued when call k has resolved.  Every call is
\* awaited, so the function body resumes only then and issues the next one.
Continue(k) == IF k < 6 THEN {k + 1} ELSE {}

CatchSilent(con, err) == con
\* catch (err) { console.log(err); }
CatchLog(con, err) == Append(con, err)

CatchRethrow == "rejected"
\* The catch block ends normally, so the promise of fileOps() fulfils.
CatchPromise == "fulfilled"

CatchCleanup(f) == [f EXCEPT ![ReplyPath] = Absent]
\* The catch block touches no file.
CatchFs(f) == f

ReturnNewData(nd) == nd
\* fileOps has no return statement: its promise fulfils with undefined.
ReturnValue(nd) == Undefined

\* An unhandled rejection reaches the 'uncaughtException' handler, which
\* calls process.exit(1); otherwise the event loop drains and node exits 0.
ExitCode(pr) == IF pr = "rejected" THEN 1 ELSE 0

VARIABLES
  fs,        \* path -> Absent or File(bytes)
  pc,        \* per process: "idle", "running", "returned", "exited"
  issued,    \* per process: the calls of the try block issued so far
  settled,   \* per process: those of them that have resolved or rejected
  failed,    \* per process: the call that rejected, 0 if none
  data,      \* per process: `data`
  newData,   \* per process: `newData`
  console,   \* per process: what console.log has printed
  stderr,    \* per process: what console.error has printed
  promise,   \* per process: state of the promise fileOps() returned
  result,    \* per process: the value it settled with
  exitCode,  \* per process: exit status, -1 while the process lives
  fs0,       \* per process: the file system when the process started
  fsPrev,    \* per process: the file system as its last resolved call left it
  thrown     \* per process: the exceptions that reached the process uncaught

\* The Express server (routes, 301 redirect, 404 catch-all).
VARIABLES
  views,     \* the files there are under views/
  phase,     \* "off", "idle", "routing", "sending", "done"
  req,       \* the request being served
  layer,     \* the layer of the router stack tried next
  sending,   \* the res.sendFile in progress
  res        \* the responses written to the request being served

\* The event-emitter script.
VARIABLES
  emPc,      \* "off", then the statement the script is at, "loop", "done"
  listeners, \* the events a listener was added for, in order
  timers,    \* the times, in ms, at which a pending timeout falls due
  now,       \* ms since the script started
  emitted,   \* the events emitted, with their message
  logCalls   \* the arguments logEvents was called with

serverVars == <<views, phase, req, layer, sending, res>>
emitterVars == <<emPc, listeners, timers, now, emitted, logCalls>>

vars == <<fs, pc, issued, settled, failed, data, newData, console, stderr,
          promise, result, exitCode, fs0, fsPrev, thrown,
          serverVars, emitterVars>>

NoReq == [method |-> "", path |-> <<>>]
NoSend == [file |-> "", status |-> 0, by |-> 0]

\* The server is not running.
ServerOff ==
  /\ views = {}
  /\ phase = "off"
  /\ req = NoReq
  /\ layer = 0
  /\ sending = NoSend
  /\ res = <<>>

\* The emitter script is not running.
EmitterOff ==
  /\ emPc = "off"
  /\ listeners = <<>>
  /\ timers = {}
  /\ now = 0
  /\ emitted = <<>>
  /\ logCalls = <<>>

\* Initial contents of starter.txt.
RECURSIVE BytesUpTo(_)
BytesUpTo(n) ==
  IF n = 0 THEN {<<>>}
  ELSE BytesUpTo(n - 1) \cup
       {Append(b, x) : b \in {c \in BytesUpTo(n - 1) : Len(c) = n - 1}, x \in ByteAlphabet}

\* What reply.txt or newreply.txt may hold from before: "x".
OldBytes == <<120>>

Init ==
  /\ fs \in {f \in [Files -> {Absent, File(OldBytes)} \cup {File(b) : b \in BytesUpTo(MaxLen)}] :
               /\ f[ReplyPath] \in {Absent, File(OldBytes)}
               /\ f[NewReplyPath] \in {Absent, File(OldBytes)}
               /\ f[StarterPath] # File(OldBytes)}
  /\ pc = [p \in Procs |-> "idle"]
  /\ issued = [p \in Procs |-> {}]
  /\ settled = [p \in Procs |-> {}]
  /\ failed = [p \in Procs |-> 0]
  /\ data = [p \in Procs |-> Undefined]
  /\ newData = [p \in Procs |-> Undefined]
  /\ console = [p \in Procs |-> <<>>]
  /\ stderr = [p \in Procs |-> <<>>]
  /\ promise = [p \in Procs |-> "pending"]
  /\ result = [p \in Procs |-> Undefined]
  /\ exitCode = [p \in Procs |-> -1]
  /\ fs0 = [p \in Procs |-> fs]
  /\ fsPrev = [p \in Procs |-> fs]
  /\ thrown = [p \in Procs |-> <<>>]
  /\ ServerOff
  /\ EmitterOff

\* `node script`: line 26 calls fileOps(), which runs up to its first await
\* and so issues the readFile of starter.txt.  The script is started again
\* only after the previous process has exited.
Launch(p) ==
  /\ pc[p] = "idle"
  /\ \A q \in Procs : q < p => pc[q] = "exited"
  /\ pc' = [pc EXCEPT ![p] = "running"]
  /\ issued' = [issued EXCEPT ![p] = {1}]
  /\ fs0' = [fs0 EXCEPT ![p] = fs]
  /\ fsPrev' = [fsPrev EXCEPT ![p] = fs]
  /\ UNCHANGED <<fs, settled, failed, data, newData, console, stderr,
                 promise, result, exitCode, thrown, serverVars, emitterVars>>

\* Call k of process p settles and the function body resumes: after a
\* resolved call with the statements up to the next await, after a rejected
\* one in the catch block.
Step(p, k) ==
  /\ pc[p] = "running"
  /\ k \in issued[p] \ settled[p]
  /\ \E o \in Call(k, fs, data[p]) :
       /\ settled' = [settled EXCEPT ![p] = @ \cup {k}]
       /\ IF o.ok
          THEN /\ fs' = o.fs
               /\ fsPrev' = [fsPrev EXCEPT ![p] = o.fs]
               /\ data' = IF k = 1 THEN [data EXCEPT ![p] = o.val] ELSE data
               /\ newData' = IF k = 6 THEN [newData EXCEPT ![p] = o.val] ELSE newData
               /\ console' = IF k \in {1, 6}
                             THEN [console EXCEPT ![p] = Append(@, o.val)]
                             ELSE console
               /\ issued' = [issued EXCEPT ![p] = @ \cup Continue(k)]
               /\ pc' = IF k = 6 THEN [pc EXCEPT ![p] = "returned"] ELSE pc
               /\ promise' = IF k = 6 THEN [promise EXCEPT ![p] = "fulfilled"] ELSE promise
               /\ result' = IF k = 6 THEN [result EXCEPT ![p] = ReturnValue(o.val)] ELSE result
               /\ UNCHANGED failed
          ELSE /\ fs' = CatchFs(o.fs)
               /\ failed' = [failed EXCEPT ![p] = k]
               /\ console' = [console EXCEPT ![p] = CatchLog(@, o.val)]
               /\ pc' = [pc EXCEPT ![p] = "returned"]
               /\ promise' = [promise EXCEPT ![p] = CatchPromise]
               /\ result' = [result EXCEPT ![p] =
                               IF CatchPromise = "rejected" THEN o.val ELSE Undefined]
               /\ UNCHANGED <<issued, data, newData, fsPrev>>
  /\ UNCHANGED <<stderr, exitCode, fs0, thrown, serverVars, emitterVars>>

ReadStarter(p) == 1 \in issued[p] /\ Step(p, 1)
UnlinkStarter(p) == 2 \in issued[p] /\ Step(p, 2)
WriteReply(p) == 3 \in issued[p] /\ Step(p, 3)
AppendReply(p) == 4 \in issued[p] /\ Step(p, 4)
RenameReply(p) == 5 \in issued[p] /\ Step(p, 5)
ReadNewReply(p) == 6 \in issued[p] /\ Step(p, 6)

\* fileOps() has settled and nothing is pending: the process ends.  A
\* rejection nobody handles goes to the handler of lines 49-52.
Exit(p) ==
  /\ pc[p] = "returned"
  /\ pc' = [pc EXCEPT ![p] = "exited"]
  /\ exitCode' = [exitCode EXCEPT ![p] = ExitCode(promise[p])]
  /\ stderr' = IF promise[p] = "rejected"
               THEN [stderr EXCEPT ![p] = Append(@, result[p])]
               ELSE stderr
  /\ thrown' = IF promise[p] = "rejected"
               THEN [thrown EXCEPT ![p] = Append(@, result[p])]
               ELSE thrown
  /\ UNCHANGED <<fs, issued, settled, failed, data, newData, console,
                 promise, result, fs0, fsPrev, serverVars, emitterVars>>

Next ==
  \E p \in Procs :
    \/ Launch(p)
    \/ ReadStarter(p)
    \/ UnlinkStarter(p)
    \/ WriteReply(p)
    \/ AppendReply(p)
    \/ RenameReply(p)
    \/ ReadNewReply(p)
    \/ Exit(p)

\* Exclusive access: nothing but the script touches the three files.
Spec == Init /\ [][Next]_vars

\* The status the handler gives process.exit.
UncaughtExitStatus == 1

HandlerNoExit(cur) == cur
\* process.exit(1) in the handler: the process is gone, whatever it was at.
UncaughtPc(cur) == "exited"

\* The error of a write to a standard output that was closed at the other
\* end: it is emitted on process.stdout, where nothing listens for it.
StdoutError == Err("EPIPE", "write", "")

\* An exception reaches process p uncaught while it lives: what it printed
\* with console.log could not be written.  The 'uncaughtException' handler,
\* registered in the first tick, prints it with console.error and exits.
UncaughtException(p) ==
  /\ pc[p] \in {"running", "returned"}
  /\ console[p] # <<>>
  /\ thrown' = [thrown EXCEPT ![p] = Append(@, StdoutError)]
  /\ stderr' = [stderr EXCEPT ![p] = Append(@, StdoutError)]
  /\ exitCode' = [exitCode EXCEPT ![p] = UncaughtExitStatus]
  /\ pc' = [pc EXCEPT ![p] = UncaughtPc(pc[p])]
  /\ UNCHANGED <<fs, issued, settled, failed, data, newData, console,
                 promise, result, fs0, fsPrev, serverVars, emitterVars>>

NextThrow == Next \/ \E p \in Procs : UncaughtException(p)

\* Exclusive access, with a standard output that may be closed.
SpecThrow == Init /\ [][NextThrow]_vars

\* `node script` while earlier processes of it may still be running on the
\* same directory.
LaunchBeside(p) ==
  /\ pc[p] = "idle"
  /\ \A q \in Procs : q < p => pc[q] # "idle"
  /\ pc' = [pc EXCEPT ![p] = "running"]
  /\ issued' = [issued EXCEPT ![p] = {1}]
  /\ fs0' = [fs0 EXCEPT ![p] = fs]
  /\ fsPrev' = [fsPrev EXCEPT ![p] = fs]
  /\ UNCHANGED <<fs, settled, failed, data, newData, console, stderr,
                 promise, result, exitCode, thrown, serverVars, emitterVars>>

NextConc ==
  \E p \in Procs :
    \/ LaunchBeside(p)
    \/ ReadStarter(p)
    \/ UnlinkStarter(p)
    \/ WriteReply(p)
    \/ AppendReply(p)
    \/ RenameReply(p)
    \/ ReadNewReply(p)
    \/ Exit(p)

\* Several processes of the script on the same directory, their calls
\* interleaved one by one.
SpecConc == Init /\ [][NextConc]_vars

\* Some call of process p in flight settles.
Settle(p) == \E k \in 1..6 : Step(p, k)

\* Exclusive access, every file-system call in flight eventually resolves or
\* rejects, and a process with nothing left to do ends.
SpecLive ==
  /\ Init
  /\ [][Next]_vars
  /\ \A p \in Procs : WF_vars(Settle(p)) /\ WF_vars(Exit(p))

\* Another program removes files/reply.txt while the script runs.
ExternalUnlink ==
  /\ \E p \in Procs : pc[p] = "running"
  /\ fs[ReplyPath].exists
  /\ fs' = [fs EXCEPT ![ReplyPath] = Absent]
  /\ UNCHANGED <<pc, issued, settled, failed, data, newData, console, stderr,
                 promise, result, exitCode, fs0, fsPrev, thrown,
                 serverVars, emitterVars>>

NextEnv == Next \/ ExternalUnlink

\* Shared access: the file system is also changed from outside.
SpecEnv == Init /\ [][NextEnv]_vars

(***************************************************************************)
(* The Express server: a RegExp route for the home page, two string        *)
(* routes, and a catch-all that answers 404.                               *)
(***************************************************************************)
\* Longest request path, in tokens.
MaxPath == 3

Methods == {"GET", "HEAD", "POST"}

\* A request path is a sequence of these pieces of text; "/x" is <<"/", "x">>.
PathTokens == {"/", "index", ".html", "new-page", "old-page", "Old-Page", "x"}

RECURSIVE TokensUpTo(_)
TokensUpTo(n) ==
  IF n = 0 THEN {<<>>}
  ELSE TokensUpTo(n - 1) \cup
       {Append(s, t) : s \in {u \in TokensUpTo(n - 1) : Len(u) = n - 1}, t \in PathTokens}

\* The paths a request may name: they begin with "/".
Paths == {<<"/">> \o s : s \in TokensUpTo(MaxPath - 1)}

ViewFiles == {"index.html", "new-page.html", "404.html"}

fileOpsVars == <<fs, pc, issued, settled, failed, data, newData, console,
                 stderr, promise, result, exitCode, fs0, fsPrev, thrown>>

\* What the program starts from when it is the server or the emitter script
\* that is run: the pipeline's directory plays no part.
InitExamples == Init /\ fs = [f \in Files |-> Absent]

toLowerCase(t) == IF t = "Old-Page" THEN "old-page" ELSE t

\* /^\/$|\/index(.html)?/.test(path): the path is "/", or "/index" occurs
\* somewhere in it; the optional group and the missing `$` let anything
\* follow.
HomeRegExp(path) ==
  \/ path = <<"/">>
  \/ \E i \in 1..(Len(path) - 1) : path[i] = "/" /\ path[i + 1] = "index"

\* A string route: the whole path, letter case ignored, one trailing slash
\* allowed.
RouteMatch(route, path) ==
  LET n == IF Len(path) > Len(route) /\ path[Len(path)] = "/"
           THEN Len(path) - 1 ELSE Len(path)
  IN  [i \in 1..n |-> toLowerCase(path[i])] = route

NewPageRoute == <<"/", "new-page", ".html">>
OldPageRoute == <<"/", "old-page", ".html">>
RedirectTarget == <<"/", "new-page", ".html">>

\* app.get(...) routes answer GET and HEAD.
IsGet(r) == r.method \in {"GET", "HEAD"}

\* Whether layer i of the router stack takes request r.
LayerMatches(i, r) ==
  CASE i = 1 -> IsGet(r) /\ HomeRegExp(r.path)
    [] i = 2 -> IsGet(r) /\ RouteMatch(NewPageRoute, r.path)
    [] i = 3 -> IsGet(r) /\ RouteMatch(OldPageRoute, r.path)
    [] i = 4 -> TRUE

Response(st, loc, body, by) ==
  [status |-> st, location |-> loc, body |-> body, by |-> by]

\* The layer tried after the handler of layer i has run: a handler that also
\* called next() would hand the request to the layer after it.
AfterRespondNext(i) == i + 1
\* No handler calls next(): the request stops at the layer that took it.
AfterRespond(i) == 0

\* Express's own last resort, reached through next(err); it is not a layer
\* of the stack.
FinalHandler == 5

\* app.listen
Listen ==
  /\ phase = "off"
  /\ phase' = "idle"
  /\ views' \in SUBSET ViewFiles
  /\ UNCHANGED <<req, layer, sending, res, fileOpsVars, emitterVars>>

\* A request arrives.
Receive(m, p) ==
  /\ phase = "idle"
  /\ req' = [method |-> m, path |-> p]
  /\ layer' = 1
  /\ res' = <<>>
  /\ sending' = NoSend
  /\ phase' = "routing"
  /\ UNCHANGED <<views, fileOpsVars, emitterVars>>

\* res.sendFile / res.status(s).sendFile from the handler of layer i.
StartSend(i, file, st) ==
  /\ sending' = [file |-> file, status |-> st, by |-> i]
  /\ layer' = AfterRespond(i)
  /\ phase' = "sending"
  /\ UNCHANGED res

\* Layer i does not take the request: on to the next one.
Skip(i) ==
  /\ layer' = i + 1
  /\ UNCHANGED <<phase, sending, res>>

\* Lines 6-9.
GetIndex ==
  /\ phase = "routing" /\ layer = 1
  /\ IF LayerMatches(1, req) THEN StartSend(1, "index.html", 200) ELSE Skip(1)
  /\ UNCHANGED <<views, req, fileOpsVars, emitterVars>>

\* Lines 11-13.
GetNewPage ==
  /\ phase = "routing" /\ layer = 2
  /\ IF LayerMatches(2, req) THEN StartSend(2, "new-page.html", 200) ELSE Skip(2)
  /\ UNCHANGED <<views, req, fileOpsVars, emitterVars>>

\* Lines 15-17: res.redirect(301, '/new-page.html').
GetOldPage ==
  /\ phase = "routing" /\ layer = 3
  /\ IF LayerMatches(3, req)
     THEN /\ res' = Append(res, Response(301, RedirectTarget, "", 3))
          /\ layer' = AfterRespond(3)
          /\ phase' = IF AfterRespond(3) = 0 THEN "done" ELSE "routing"
          /\ UNCHANGED sending
     ELSE Skip(3)
  /\ UNCHANGED <<views, req, fileOpsVars, emitterVars>>

\* Lines 19-21.
NotFound ==
  /\ phase = "routing" /\ layer = 4
  /\ IF LayerMatches(4, req) THEN StartSend(4, "404.html", 404) ELSE Skip(4)
  /\ UNCHANGED <<views, req, fileOpsVars, emitterVars>>

\* res.sendFile finishes: the file goes out with the status set, or it is
\* not there, sendFile calls next(err) with a 404 error, no layer handles
\* errors and Express's final handler answers 404.
SendFile ==
  /\ phase = "sending"
  /\ res' = Append(res,
        IF sending.file \in views
        THEN Response(sending.status, <<>>, sending.file, sending.by)
        ELSE Response(404, <<>>, "Not Found", FinalHandler))
  /\ phase' = IF layer = 0 THEN "done" ELSE "routing"
  /\ sending' = NoSend
  /\ UNCHANGED <<views, req, layer, fileOpsVars, emitterVars>>

\* The response has gone out; the server waits for the next request.
Finish ==
  /\ phase = "done"
  /\ phase' = "idle"
  /\ req' = NoReq
  /\ layer' = 0
  /\ res' = <<>>
  /\ UNCHANGED <<views, sending, fileOpsVars, emitterVars>>

NextServer ==
  \/ Listen
  \/ \E m \in Methods, p \in Paths : Receive(m, p)
  \/ GetIndex
  \/ GetNewPage
  \/ GetOldPage
  \/ NotFound
  \/ SendFile
  \/ Finish

SpecServer == InitExamples /\ [][NextServer]_vars

\* A request taken in is worked on until it is answered: the router goes
\* through its stack and a sendFile under way comes to its end.
Serve == GetIndex \/ GetNewPage \/ GetOldPage \/ NotFound \/ SendFile

SpecServerLive == InitExamples /\ [][NextServer]_vars /\ WF_vars(Serve)

(***************************************************************************)
(* The event-emitter script: a listener for 'log' that calls logEvents,    *)
(* and a timeout that emits 'log' once.                                    *)
(***************************************************************************)
\* setTimeout(..., 2000)
TimerDelay == 2000
\* How late, in ms, the event loop may run a timeout that has fallen due.
MaxLate == 3

ListenEventTypo == "logs"
\* myEmitter.on('log', ...)
ListenEvent == "log"
\* myEmitter.emit('log', 'log event emitted')
EmitEvent == "log"
EmitMessage == "log event emitted"

\* `node index`: lines 1-8, up to the emitter object.
StartEmitter ==
  /\ emPc = "off"
  /\ emPc' = "on"
  /\ UNCHANGED <<listeners, timers, now, emitted, logCalls, fileOpsVars, serverVars>>

\* Line 10.
AddListener ==
  /\ emPc = "on"
  /\ listeners' = Append(listeners, ListenEvent)
  /\ emPc' = "setTimeout"
  /\ UNCHANGED <<timers, now, emitted, logCalls, fileOpsVars, serverVars>>

\* Lines 12-15; the script ends there and the event loop takes over.
SetTimeout ==
  /\ emPc = "setTimeout"
  /\ timers' = timers \cup {now + TimerDelay}
  /\ emPc' = "loop"
  /\ UNCHANGED <<listeners, now, emitted, logCalls, fileOpsVars, serverVars>>

\* A millisecond passes with a timeout pending.
Tick ==
  /\ emPc = "loop"
  /\ \E due \in timers : now < due + MaxLate
  /\ now' = now + 1
  /\ UNCHANGED <<emPc, listeners, timers, emitted, logCalls, fileOpsVars, serverVars>>

\* emit(event, msg) calls the listeners added for the event, in order and
\* at once; here each of them calls logEvents(msg).
emit(event, msg) ==
  [i \in 1..Len(SelectSeq(listeners, LAMBDA e : e = event)) |-> msg]

\* The timeout has fallen due and its callback runs: line 14.
Fire ==
  /\ emPc = "loop"
  /\ \E due \in timers :
       /\ now >= due
       /\ timers' = timers \ {due}
  /\ emitted' = Append(emitted, [event |-> EmitEvent, msg |-> EmitMessage])
  /\ logCalls' = logCalls \o emit(EmitEvent, EmitMessage)
  /\ UNCHANGED <<emPc, listeners, now, fileOpsVars, serverVars>>

\* Nothing is pending any more: the process ends.
EndEmitter ==
  /\ emPc = "loop"
  /\ timers = {}
  /\ emPc' = "done"
  /\ UNCHANGED <<listeners, timers, now, emitted, logCalls, fileOpsVars, serverVars>>

RunEmitter == AddListener \/ SetTimeout \/ Tick \/ Fire \/ EndEmitter

NextEmitter ==
  \/ StartEmitter
  \/ AddListener
  \/ SetTimeout
  \/ Tick
  \/ Fire
  \/ EndEmitter

\* The script runs to its end and the event loop keeps turning.
SpecEmitter == InitExamples /\ [][NextEmitter]_vars /\ WF_vars(RunEmitter)

(***************************************************************************)
(* Properties                                                              *)
(***************************************************************************)
\* The run of process p has ended and the script has not been started since.
RunEnded(p) ==
  /\ pc[p] \in {"returned", "exited"}
  /\ \A q \in Procs : q > p => pc[q] = "idle"

\* All six calls resolved.
Succeeded(p) == pc[p] \in {"returned", "exited"} /\ failed[p] = 0

\* The bytes are the UTF-8 form of a text.
IsText(b) == utf8Encode(utf8Decode(b)) = b

\* The error console.log printed last.
LoggedError(p) == console[p][Len(console[p])]

\* C1: if starter.txt holds a text T when fileOps starts and no call fails,
\* then at the end newreply.txt holds exactly T followed by
\* "\n\nappending to this file", and starter.txt and reply.txt do not exist.
C1_PipelineProducesNewReply ==
  \A p \in Procs :
    (/\ RunEnded(p)
     /\ failed[p] = 0
     /\ fs0[p][StarterPath].exists
     /\ IsText(fs0[p][StarterPath].bytes))
    => LET T == utf8Decode(fs0[p][StarterPath].bytes)
       IN  /\ fs[NewReplyPath] = File(utf8Encode(T \o Suffix))
           /\ fs[NewReplyPath].bytes = fs0[p][StarterPath].bytes \o utf8Encode(Suffix)
           /\ ~fs[StarterPath].exists
           /\ ~fs[ReplyPath].exists

\* A successful run on a two-byte text (U+00E9), with reply.txt and
\* newreply.txt both there from before.
C1_Witness ==
  \E p \in Procs :
    /\ RunEnded(p)
    /\ failed[p] = 0
    /\ fs0[p][StarterPath] = File(<<195, 169>>)
    /\ fs0[p][ReplyPath].exists
    /\ fs0[p][NewReplyPath].exists
    /\ fs[NewReplyPath] = File(<<195, 169>> \o Suffix)

\* C2: if starter.txt is absent when fileOps starts, the run fails at the
\* first call, the read, with ENOENT, no later call is issued and the three
\* files are exactly as they were.
C2_AbsentStarterNoMutation ==
  \A p \in Procs :
    (RunEnded(p) /\ ~fs0[p][StarterPath].exists)
    => /\ failed[p] = 1
       /\ issued[p] = {1}
       /\ console[p] = <<Err("ENOENT", "open", StarterPath)>>
       /\ fs = fs0[p]

\* A first run without starter.txt but with reply.txt there from before.
C2_Witness ==
  /\ RunEnded(1)
  /\ ~fs0[1][StarterPath].exists
  /\ fs0[1][ReplyPath].exists
  /\ ~fs0[1][NewReplyPath].exists

C5_FailureLeavesPriorState ==
  \A p \in Procs :
    (RunEnded(p) /\ failed[p] # 0)
    => /\ issued[p] = 1..failed[p]
       /\ settled[p] = issued[p]
       /\ fs = fsPrev[p]

\* C5 amended: when call k fails no later call is issued and nothing is
\* cleaned up or rolled back: starter.txt and newreply.txt are as calls
\* 1..k-1 left them, and so is reply.txt, except that a write or append that
\* fails part-way leaves reply.txt with what it had put down by then (the
\* write: truncated, with a proper prefix of the text; the append: with a
\* proper prefix of the literal added).
C5_FailureNoRollback ==
  \A p \in Procs :
    (RunEnded(p) /\ failed[p] # 0)
    => /\ issued[p] = 1..failed[p]
       /\ settled[p] = issued[p]
       /\ fs[StarterPath] = fsPrev[p][StarterPath]
       /\ fs[NewReplyPath] = fsPrev[p][NewReplyPath]
       /\ \/ fs[ReplyPath] = fsPrev[p][ReplyPath]
          \/ /\ failed[p] = 3
             /\ LoggedError(p).syscall = "write"
             /\ \E b \in ProperPrefixes(utf8Encode(data[p].val)) :
                  fs[ReplyPath] = File(b)
          \/ /\ failed[p] = 4
             /\ LoggedError(p).syscall = "write"
             /\ \E b \in ProperPrefixes(utf8Encode(Suffix)) :
                  fs[ReplyPath] = File(fsPrev[p][ReplyPath].bytes \o b)

\* The append was rejected at its open: starter.txt is gone, reply.txt holds
\* the text, newreply.txt was never made.
C5_Witness ==
  \E p \in Procs :
    /\ RunEnded(p)
    /\ failed[p] = 4
    /\ LoggedError(p).code = "EACCES"
    /\ fs0[p][StarterPath] = File(<<104, 104>>)
    /\ ~fs0[p][NewReplyPath].exists
    /\ fs = [fs0[p] EXCEPT ![StarterPath] = Absent, ![ReplyPath] = File(<<104, 104>>)]

\* What call k, once resolved, has made of the file system g, d being `data`.
EffectVisible(k, g, d) ==
  IF k = 1 THEN d.type = "string"
  ELSE IF k = 2 THEN ~g[StarterPath].exists
  ELSE IF k = 3 THEN g[ReplyPath] = File(utf8Encode(d.val))
  ELSE IF k = 4 THEN g[ReplyPath] = File(utf8Encode(d.val) \o utf8Encode(Suffix))
  ELSE /\ ~g[ReplyPath].exists
       /\ g[NewReplyPath] = File(utf8Encode(d.val) \o utf8Encode(Suffix))

\* At most one call of a run is in flight, and the calls issued so far are
\* the first n of read, unlink, write, append, rename, read, every one but
\* the last of them resolved.
OneCallInFlight ==
  \A p \in Procs :
    /\ Cardinality(issued[p] \ settled[p]) <= 1
    /\ settled[p] \subseteq issued[p]
    /\ \E n \in 0..6 : issued[p] = 1..n
    /\ \A k \in issued[p] : \A j \in 1..(k - 1) : j \in settled[p] /\ failed[p] # j

\* C6: within a run the calls are made in the order read, unlink, write,
\* append, rename, read; at most one is in flight at any moment, and call
\* k+1 is issued only in the step in which call k resolves, with the effect of
\* call k on the files in place.
C6_StepsInOrderOneAtATime ==
  /\ []OneCallInFlight
  /\ [][\A p \in Procs : \A k \in 1..5 :
          (k + 1 \in issued'[p] /\ k + 1 \notin issued[p])
          => /\ k \in issued[p] \ settled[p]
             /\ k \in settled'[p]
             /\ failed'[p] = 0
             /\ EffectVisible(k, fs', data'[p])]_vars

\* The final read is in flight alone, the five calls before it resolved.
C6_Witness ==
  \E p \in Procs :
    /\ pc[p] = "running"
    /\ issued[p] = 1..6
    /\ settled[p] = 1..5
    /\ fs0[p][ReplyPath].exists

\* C7: when the script is run again after a run in which all six calls
\* resolved, with nothing recreated in between, the second run fails at its
\* first call with ENOENT on starter.txt, issues no other call, and leaves
\* newreply.txt as the first run produced it.
C7_SecondRunFailsAtRead ==
  \A p \in Procs : \A q \in Procs :
    (q = p + 1 /\ Succeeded(p) /\ RunEnded(q))
    => /\ failed[q] = 1
       /\ issued[q] = {1}
       /\ console[q] = <<Err("ENOENT", "open", StarterPath)>>
       /\ fs = fs0[q]
       /\ fs[NewReplyPath] = File(utf8Encode(data[p].val \o Suffix))

\* Two runs, the first successful on "hh", the second ended.
C7_Witness ==
  /\ Succeeded(1)
  /\ fs0[1][StarterPath] = File(<<104, 104>>)
  /\ pc[2] = "exited"
  /\ fs[NewReplyPath] = File(<<104, 104>> \o Suffix)

\* C8: if the rename is rejected because reply.txt is not there (removed
\* from outside before the rename), the error logged names the rename (its
\* syscall is "rename", which no other call's error has), and newreply.txt
\* does not exist afterwards if it did not exist before the run.
C8_RenameFailureIdentified ==
  \A p \in Procs :
    /\ (RunEnded(p) /\ failed[p] = 5 /\ LoggedError(p).code = "ENOENT")
       => /\ LoggedError(p) = Err("ENOENT", "rename", ReplyPath)
          /\ ~fs0[p][NewReplyPath].exists => ~fs[NewReplyPath].exists
    /\ (RunEnded(p) /\ failed[p] # 0)
       => (LoggedError(p).syscall = "rename" <=> failed[p] = 5)

\* reply.txt was removed after the append and the rename found it missing.
C8_Witness ==
  \E p \in Procs :
    /\ RunEnded(p)
    /\ failed[p] = 5
    /\ LoggedError(p).code = "ENOENT"
    /\ fs0[p][StarterPath] = File(<<104>>)
    /\ ~fs0[p][NewReplyPath].exists
    /\ ~fs[ReplyPath].exists

C10_ReplyRemainsAfterAbort ==
  \A p \in Procs :
    (RunEnded(p) /\ failed[p] \in {4, 5}) => fs[ReplyPath].exists

\* The rename was rejected: reply.txt holds text and literal, newreply.txt
\* is as it was.
C10_Witness ==
  \E p \in Procs :
    /\ RunEnded(p)
    /\ failed[p] = 5
    /\ fs0[p][StarterPath] = File(<<104>>)
    /\ fs[ReplyPath] = File(<<104>> \o Suffix)
    /\ fs[NewReplyPath] = fs0[p][NewReplyPath]

\* C13: the write creates or truncates reply.txt: whatever reply.txt held
\* before (nothing included), once the write has resolved reply.txt holds
\* exactly the string read from starter.txt, and the newreply.txt of a
\* successful run is that string and the literal, whatever reply.txt held.
C13_WriteTruncatesReply ==
  \A p \in Procs :
    /\ (pc[p] = "running" /\ 3 \in settled[p] /\ 4 \notin settled[p])
       => fs[ReplyPath] = File(utf8Encode(data[p].val))
    /\ (RunEnded(p) /\ Succeeded(p))
       => fs[NewReplyPath] =
            File(utf8Encode(utf8Decode(fs0[p][StarterPath].bytes) \o Suffix))

\* The write has resolved with an empty starter.txt and a reply.txt that
\* held "x": reply.txt is empty now.
C13_Witness ==
  \E p \in Procs :
    /\ pc[p] = "running"
    /\ settled[p] = 1..3
    /\ fs0[p][StarterPath] = File(<<>>)
    /\ fs0[p][ReplyPath] = File(OldBytes)
    /\ fs[ReplyPath] = File(<<>>)

\* C16: with exclusive access and reply.txt absent at the start of the
\* run, starter.txt and reply.txt never exist at the same time, and after a
\* rejected write neither starter.txt nor reply.txt holds the original bytes
\* (newreply.txt being as it was).
C16_StarterGoneBeforeReply ==
  \A p \in Procs :
    (pc[p] # "idle" /\ (\A q \in Procs : q > p => pc[q] = "idle")
       /\ ~fs0[p][ReplyPath].exists)
    => /\ ~(fs[StarterPath].exists /\ fs[ReplyPath].exists)
       /\ (RunEnded(p) /\ failed[p] = 3)
          => /\ fs[StarterPath] # fs0[p][StarterPath]
             /\ fs[ReplyPath] # fs0[p][StarterPath]
             /\ fs[NewReplyPath] = fs0[p][NewReplyPath]

\* The write of "hh" was rejected after one byte: starter.txt is gone and
\* reply.txt holds "h".
C16_Witness ==
  \E p \in Procs :
    /\ RunEnded(p)
    /\ failed[p] = 3
    /\ ~fs0[p][ReplyPath].exists
    /\ fs0[p][StarterPath] = File(<<104, 104>>)
    /\ ~fs[StarterPath].exists
    /\ fs[ReplyPath] = File(<<104>>)

\* How a run can have ended: all six calls resolved, or calls 1..k-1
\* resolved and call k, and only that one, rejected.
EndedProperly(p) ==
  \/ failed[p] = 0 /\ settled[p] = 1..6 /\ issued[p] = 1..6
  \/ failed[p] \in 1..6 /\ settled[p] = 1..failed[p] /\ issued[p] = 1..failed[p]

\* C14: every run terminates: if each call in flight eventually settles,
\* a started fileOps eventually returns, after its sixth call or after the
\* one call that rejected, and once it has returned the process issues no
\* further call and never runs fileOps again.
C14_RunTerminates ==
  /\ \A p \in Procs : (pc[p] = "running") ~> (pc[p] \in {"returned", "exited"})
  /\ [](\A p \in Procs : pc[p] \in {"returned", "exited"} => EndedProperly(p))
  /\ [][\A p \in Procs :
          pc[p] \in {"returned", "exited"}
          => /\ pc'[p] \in {"returned", "exited"}
             /\ issued'[p] = issued[p]
             /\ settled'[p] = settled[p]]_vars

\* A process has exited after its unlink was rejected, and the script has
\* been started a second time.
C14_Witness ==
  /\ pc[1] = "exited"
  /\ failed[1] = 2
  /\ settled[1] = {1, 2}
  /\ pc[2] = "running"

\* C15: whenever an exception reaches the process uncaught, the handler
\* has printed it with console.error and the process has exited with status
\* 1; from then on the process does nothing more.
C15_UncaughtExceptionExits ==
  /\ [](\A p \in Procs :
          thrown[p] # <<>>
          => /\ pc[p] = "exited"
             /\ exitCode[p] = 1
             /\ stderr[p] = thrown[p]
             /\ Len(thrown[p]) = 1)
  /\ [][\A p \in Procs :
          thrown[p] # <<>>
          => /\ pc'[p] = pc[p]
             /\ issued'[p] = issued[p]
             /\ settled'[p] = settled[p]
             /\ console'[p] = console[p]
             /\ stderr'[p] = stderr[p]
             /\ exitCode'[p] = exitCode[p]]_vars

\* The exception came while the unlink was in flight: the process exited
\* with status 1 and starter.txt is still there.
C15_Witness ==
  \E p \in Procs :
    /\ thrown[p] = <<StdoutError>>
    /\ issued[p] = {1, 2}
    /\ settled[p] = {1}
    /\ pc[p] = "exited"
    /\ exitCode[p] = 1
    /\ fs[StarterPath].exists

\* The processes whose unlink resolved, so that they went on to the write.
PastUnlink == {p \in Procs : 3 \in issued[p]}

\* C17: when runs on the same directory interleave call by call, with
\* starter.txt present at first, at most one of them gets past the unlink;
\* every other one fails at its read or at its unlink and issues no write,
\* append or rename, and when all have ended newreply.txt is what the one
\* run alone leaves: text and literal if its rename resolved, else what it
\* was before.
C17_OneRunPastUnlink ==
  /\ Cardinality(PastUnlink) <= 1
  /\ \A p \in Procs :
       (pc[p] \in {"returned", "exited"} /\ p \notin PastUnlink)
       => failed[p] \in {1, 2} /\ issued[p] \subseteq {1, 2}
  /\ (\A p \in Procs : pc[p] \in {"returned", "exited"})
     => fs[NewReplyPath] =
          IF \E p \in Procs : 5 \in settled[p] /\ failed[p] # 5
          THEN File(utf8Encode(utf8Decode(fs0[1][StarterPath].bytes) \o Suffix))
          ELSE fs0[1][NewReplyPath]

\* Both processes read starter.txt before either unlinked it: the first got
\* through all six calls, the second had its unlink rejected with ENOENT.
C17_Witness ==
  /\ fs0[1][StarterPath] = File(<<104>>)
  /\ Succeeded(1)
  /\ pc[2] \in {"returned", "exited"}
  /\ data[2] = Str(<<104>>)
  /\ failed[2] = 2
  /\ LoggedError(2) = Err("ENOENT", "unlink", StarterPath)
  /\ fs[NewReplyPath] = File(<<104>> \o Suffix)

\* The routes the README's table lists.
ListedRoutes ==
  {<<"/">>, <<"/", "index">>, <<"/", "index", ".html">>,
   <<"/", "new-page">>, <<"/", "new-page", ".html">>,
   <<"/", "old-page">>, <<"/", "old-page", ".html">>}

\* The request has been answered.
Answered == phase = "done" /\ Len(res) >= 1

\* C11: a request of any method for a path that is not one of the listed
\* routes is answered with status 404.
C11_UnlistedPathIs404 ==
  (Answered /\ req.path \notin ListedRoutes)
  => \A i \in 1..Len(res) : res[i].status = 404

\* C12: GET /old-page and GET /old-page.html are both answered with a 301
\* redirect to /new-page.html.
C12_OldPageRedirects ==
  (/\ Answered
   /\ req.method = "GET"
   /\ req.path \in {<<"/", "old-page">>, <<"/", "old-page", ".html">>})
  => /\ res[1].status = 301
     /\ res[1].location = <<"/", "new-page", ".html">>

\* The first layer of the stack, in registration order, that takes request r.
FirstMatch(r) ==
  CHOOSE i \in 1..4 : LayerMatches(i, r) /\ \A j \in 1..(i - 1) : ~LayerMatches(j, r)

\* The view the handler of layer i sends; the redirect sends none.
ViewOf(i) ==
  CASE i = 1 -> "index.html"
    [] i = 2 -> "new-page.html"
    [] i = 3 -> ""
    [] i = 4 -> "404.html"

\* C18 as stated: a request gets exactly one response, and it is the first
\* handler in registration order that matches which responds; the 404
\* handler only when none of the three routes matched.
C18_FirstMatchResponds ==
  /\ Len(res) <= 1
  /\ phase = "done" =>
       /\ Len(res) = 1
       /\ res[1].by = FirstMatch(req)
       /\ res[1].by = 4 => \A j \in 1..3 : ~LayerMatches(j, req)

\* C18, amended: every request taken in is answered, with exactly one
\* response; the layers are tried in registration order and only the first
\* that matches runs its handler.  The response is that handler's, unless the
\* view it sends is missing: then Express's final handler answers 404 in its
\* place.  The 404 handler runs only when none of the three routes matched.
C18_FirstMatchHandles ==
  /\ [](/\ Len(res) <= 1
        /\ phase = "sending" => sending.by = FirstMatch(req)
        /\ phase = "done" =>
             /\ Len(res) = 1
             /\ LET f == FirstMatch(req)
                IN  IF f = 3 \/ ViewOf(f) \in views
                    THEN res[1].by = f
                    ELSE res[1] = Response(404, <<>>, "Not Found", FinalHandler)
             /\ res[1].by = 4 => \A j \in 1..3 : ~LayerMatches(j, req))
  /\ [][layer' # layer => layer' \in {0, 1, layer + 1}]_vars
  /\ (phase = "routing") ~> (phase = "done")

\* GET /new-page.html with views/new-page.html in place: layer 1 passed it
\* on, layer 2 sent the view, layers 3 and 4 never ran.
C18_Witness ==
  /\ phase = "done"
  /\ req = [method |-> "GET", path |-> <<"/", "new-page", ".html">>]
  /\ res = <<Response(200, <<>>, "new-page.html", 2)>>

\* C19: the 'log' listener is there before 'log' is emitted; the event is
\* emitted once, not before the 2000 ms are over; logEvents is called once,
\* with 'log event emitted', at the emission and not before; and a script
\* that has started does get there.
C19_LogEventsCalledOnce ==
  /\ [](/\ Len(emitted) <= 1
        /\ Len(logCalls) = Len(emitted)
        /\ emitted # <<>> =>
             /\ emitted = <<[event |-> "log", msg |-> "log event emitted"]>>
             /\ listeners = <<"log">>
             /\ logCalls = <<"log event emitted">>
             /\ now >= 2000
        /\ emPc = "done" => Len(emitted) = 1)
  /\ [][logCalls' # logCalls => emitted' # emitted]_vars
  /\ (emPc = "on") ~> (emPc = "done" /\ logCalls = <<"log event emitted">>)

\* The timeout ran a millisecond late; logEvents has been called and the
\* process has ended.
C19_Witness ==
  /\ emPc = "done"
  /\ now = TimerDelay + 1
  /\ emitted = <<[event |-> EmitEvent, msg |-> EmitMessage]>>
  /\ logCalls = <<EmitMessage>>

====
